---- MODULE Spec2Model ----
(***************************************************************************)
(* The MegaMobilier quoting page (React component Home).                    *)
(*                                                                         *)
(* Two revisions of the page are modelled:                                  *)
(*   "part_000"  src/unnamed/part_000   (later: recording, PDF try/catch)   *)
(*   "index"     src/pages/index.tsx    (earlier: name required)            *)
(* The variable revision says which one a behaviour runs; it never changes. *)
(*                                                                         *)
(* Strings the code inspects character by character (typed text, names,     *)
(* data URLs, base64 payloads) are sequences of one-character strings.      *)
(* Messages the code only stores and shows are TLA+ strings.                *)
(* Every handler is one action; every await splits a handler into the part  *)
(* that runs at the click and the part that runs when the promise settles.  *)
(***************************************************************************)
EXTENDS Integers, Sequences, FiniteSets, TLC

(***************************************************************************)
(* Bounds of the model (not program constants).                             *)
(***************************************************************************)
MaxReaders == 1      \* FileReader reads pending at once
MaxSessions == 2     \* getUserMedia calls over one behaviour
MaxTime == 1         \* cap of the elapsed counter recordingTime
MaxInflight == 2     \* POST /cotizar requests pending at once
MaxPdfJobs == 1      \* handleDownloadPDF calls pending at once

(***************************************************************************)
(* JavaScript values.                                                       *)
(***************************************************************************)
\* null of useState<CotizacionResponse | null>(null), and of the refs
Null == [null |-> TRUE]

\* the value undefined where a string is expected (split(",")[1] without comma)
Undefined == <<"undefined">>

\* JavaScript truthiness of a string-or-undefined value
Truthy(s) == s # <<>> /\ s # Undefined

\* characters String.prototype.trim removes
WhiteSpace == {" ", "\t", "\n"}

RECURSIVE TrimStart(_)
TrimStart(s) ==
    IF s # <<>> /\ Head(s) \in WhiteSpace THEN TrimStart(Tail(s)) ELSE s

RECURSIVE TrimEnd(_)
TrimEnd(s) ==
    IF s # <<>> /\ s[Len(s)] \in WhiteSpace
    THEN TrimEnd(SubSeq(s, 1, Len(s) - 1))
    ELSE s

\* String.prototype.trim
Trim(s) == TrimEnd(TrimStart(s))

\* s.replace(/\s+/g, "_"): every maximal run of white space becomes one "_"
RECURSIVE ReplaceSpaces(_)
ReplaceSpaces(s) ==
    IF s = <<>> THEN <<>>
    ELSE IF Head(s) \in WhiteSpace
         THEN <<"_">> \o ReplaceSpaces(TrimStart(s))
         ELSE <<Head(s)>> \o ReplaceSpaces(Tail(s))

(***************************************************************************)
(* Base64 and data URLs (FileReader.readAsDataURL).                         *)
(***************************************************************************)
Base64Alphabet ==
    << "A","B","C","D","E","F","G","H","I","J","K","L","M","N","O","P",
       "Q","R","S","T","U","V","W","X","Y","Z","a","b","c","d","e","f",
       "g","h","i","j","k","l","m","n","o","p","q","r","s","t","u","v",
       "w","x","y","z","0","1","2","3","4","5","6","7","8","9","+","/" >>

B64(n) == Base64Alphabet[n + 1]

RECURSIVE Base64Encode(_)
Base64Encode(bytes) ==
    IF Len(bytes) = 0 THEN <<>>
    ELSE IF Len(bytes) = 1 THEN
        << B64(bytes[1] \div 4), B64((bytes[1] % 4) * 16), "=", "=" >>
    ELSE IF Len(bytes) = 2 THEN
        << B64(bytes[1] \div 4),
           B64((bytes[1] % 4) * 16 + bytes[2] \div 16),
           B64((bytes[2] % 16) * 4), "=" >>
    ELSE
        << B64(bytes[1] \div 4),
           B64((bytes[1] % 4) * 16 + bytes[2] \div 16),
           B64((bytes[2] % 16) * 4 + bytes[3] \div 64),
           B64(bytes[3] % 64) >>
        \o Base64Encode(SubSeq(bytes, 4, Len(bytes)))

\* The result of readAsDataURL for a blob of the given type and bytes.  For an
\* empty blob the platforms differ: "data:" alone, or the header with an empty
\* base64 part; emptyAsBare chooses.
DataURL(type, bytes, emptyAsBare) ==
    IF bytes = <<>> /\ emptyAsBare
    THEN <<"data:">>
    ELSE <<"data:", type, ";base64", ",">> \o Base64Encode(bytes)

\* (reader.result as string).split(",")[1]
RECURSIVE UpToComma(_)
UpToComma(s) ==
    IF s = <<>> \/ Head(s) = "," THEN <<>> ELSE <<Head(s)>> \o UpToComma(Tail(s))

RECURSIVE AfterComma(_)
AfterComma(s) ==
    IF s = <<>> THEN Undefined
    ELSE IF Head(s) = "," THEN UpToComma(Tail(s))
    ELSE AfterComma(Tail(s))

SplitComma1(s) == AfterComma(s)

(***************************************************************************)
(* Inputs.                                                                  *)
(***************************************************************************)
InputFormats == {"text", "image", "audio"}

Revisions == {"part_000", "index"}

\* values the user can leave in the requirement textarea
Texts == { <<>>, <<" ">>, <<"a">>, <<" ", "a", " ">> }

\* values the user can leave in the name, email and city inputs
Names == { <<>>, <<" ">>, <<"A">> }

\* files the user can pick in a file dialog (accept= is only a hint)
Files ==
    { [name |-> "silla.png", type |-> "image/png",  bytes |-> <<137, 80>>],
      [name |-> "nota.mp3",  type |-> "audio/mpeg", bytes |-> <<73>>],
      [name |-> "vacio.png", type |-> "image/png",  bytes |-> <<>>] }

\* data of one dataavailable event of a MediaRecorder
ChunkData == { <<>>, <<26>> }

\* quotations the backend can answer with (amounts in cents)
Cotizaciones ==
    { [cliente |-> <<"A">>, fecha |-> "2024-01-01",
       items |-> << [nombre |-> "Silla", cantidad |-> 5,
                     precioUnitario |-> 1000, subtotal |-> 5000] >>,
       subtotal |-> 5000, iva |-> 950, total |-> 5950,
       debug |-> <<>>],
      [cliente |-> <<"A", " ", "B">>, fecha |-> "2024-01-01",
       items |-> << [nombre |-> "Mesa", cantidad |-> 1,
                     precioUnitario |-> 2000, subtotal |-> 2000],
                    [nombre |-> "Silla", cantidad |-> 2,
                     precioUnitario |-> 1000, subtotal |-> 1500] >>,
       subtotal |-> 3000, iva |-> 570, total |-> 9999,
       debug |-> << [textoInterpretado |-> "1 mesa, 2 sillas",
                     formatoProcesado |-> "text"] >>] }

\* messages of the exceptions the platform throws
FetchFailedMessage == "Failed to fetch"
JsonSyntaxMessage == "Unexpected token < in JSON at position 0"
NullPropertyMessage == "Cannot read properties of null (reading 'mensaje')"

\* response bodies: not JSON, the JSON value null, an error object with or
\* without mensaje, a quotation
Bodies ==
    { [json |-> "invalid"], [json |-> "null"] }
    \cup { [json |-> "error", hasMensaje |-> h, mensaje |-> m] :
             <<h, m>> \in { <<FALSE, "">>, <<TRUE, "">>,
                            <<TRUE, "Formato invalido">> } }
    \cup { [json |-> "cotizacion", value |-> q] : q \in Cotizaciones }

\* how a fetch settles: rejected, or a response with a status and a body.
\* The backend answers 2xx with a quotation and an error status with an error
\* object; any status can come with a body that is not JSON or is null.
Outcomes ==
    { [fetch |-> "rejected"] }
    \cup { [fetch |-> "response", ok |-> TRUE, body |-> b] :
             b \in { x \in Bodies : x.json \in {"invalid", "null", "cotizacion"} } }
    \cup { [fetch |-> "response", ok |-> FALSE, body |-> b] :
             b \in { x \in Bodies : x.json \in {"invalid", "null", "error"} } }

\* catalogs the backend can answer GET /catalogo with (prices in cents); the
\* category "sofas" has no product
Catalogos ==
    { [total |-> 3, categorias |-> <<"sillas", "mesas", "sofas">>,
       productos |-> << [id |-> "p1", nombre |-> "Silla", categoria |-> "sillas",
                         precio |-> 1000],
                        [id |-> "p2", nombre |-> "Mesa", categoria |-> "mesas",
                         precio |-> 2000],
                        [id |-> "p3", nombre |-> "Banco", categoria |-> "sillas",
                         precio |-> 1550] >>],
      [total |-> 0, categorias |-> <<>>, productos |-> <<>>] }

\* how the GET /catalogo settles: rejected, or a response with a status and a
\* body: not JSON, the JSON value null, an error object, a catalog
CatalogoOutcomes ==
    { [fetch |-> "rejected"] }
    \cup { [fetch |-> "response", ok |-> TRUE, body |-> b] :
             b \in { [json |-> "invalid"], [json |-> "null"] }
                   \cup { [json |-> "catalogo", value |-> c] : c \in Catalogos } }
    \cup { [fetch |-> "response", ok |-> FALSE, body |-> b] :
             b \in { [json |-> "invalid"],
                     [json |-> "error", value |-> [mensaje |-> "Error interno"]] } }

(***************************************************************************)
(* State.                                                                   *)
(***************************************************************************)
VARIABLES
    revision,            \* which source file the page was built from
    \* useState of Home
    formato, nombre, email, ciudad, textoRequerimiento, archivoBase64,
    nombreArchivo, loading, resultado, error, generatingPDF,
    isRecording, recordingTime,
    catalogo, categoriaActiva, loadingCatalogo,
    \* useRef of Home
    mediaRecorderRef, audioChunksRef, recordingIntervalRef,
    \* the platform
    readers,             \* FileReader reads in progress
    recorders,           \* one entry per getUserMedia call: its recorder, stream
    timers,              \* intervals created by setInterval and not cleared
    cotizar,             \* POST /cotizar requests in flight
    pdfJobs,             \* handleDownloadPDF calls in progress
    catalogoFetch,       \* state of the GET /catalogo request
    catalogoGets,        \* number of GET /catalogo requests issued
    descargas,           \* names of the PDF files saved
    \* history
    origen               \* modality under which the held payload was captured

formVars == <<formato, nombre, email, ciudad, textoRequerimiento,
              archivoBase64, nombreArchivo, origen>>
quoteVars == <<loading, resultado, error, cotizar>>
pdfVars == <<generatingPDF, pdfJobs, descargas>>
recVars == <<isRecording, recordingTime, mediaRecorderRef, audioChunksRef,
             recordingIntervalRef, recorders, timers>>
catVars == <<catalogo, categoriaActiva, loadingCatalogo, catalogoFetch,
             catalogoGets>>

vars == <<revision, formVars, quoteVars, pdfVars, recVars, catVars, readers>>

\* useState / useRef initial values; on mount the effect has called fetchCatalogo
InitRev(revs) ==
    /\ revision \in revs
    /\ formato = "text"
    /\ nombre = <<>>
    /\ email = <<>>
    /\ ciudad = <<>>
    /\ textoRequerimiento = <<>>
    /\ archivoBase64 = <<>>
    /\ nombreArchivo = ""
    /\ loading = FALSE
    /\ resultado = Null
    /\ error = ""
    /\ generatingPDF = FALSE
    /\ isRecording = FALSE
    /\ recordingTime = 0
    /\ catalogo = Null
    /\ categoriaActiva = "todas"
    /\ loadingCatalogo = TRUE
    /\ mediaRecorderRef = 0
    /\ audioChunksRef = <<>>
    /\ recordingIntervalRef = 0
    /\ readers = <<>>
    /\ recorders = [i \in 1..MaxSessions |-> [state |-> "unused", stream |-> "none"]]
    /\ timers = {}
    /\ cotizar = <<>>
    /\ pdfJobs = <<>>
    /\ catalogoFetch = "pending"
    /\ catalogoGets = 1
    /\ descargas = {}
    /\ origen = "none"

(***************************************************************************)
(* What is rendered (the conditions of the JSX).                            *)
(***************************************************************************)
\* The render of Home throws: catalogo holds a value without productos and
\* categorias, and catalogo?.categorias.map / catalogo?.productos.filter call a
\* method of undefined.  Nothing catches it, so nothing of the page is shown.
RenderThrows ==
    /\ catalogo # Null
    /\ ~({"categorias", "productos"} \subseteq DOMAIN catalogo)

\* {!resultado ? ( form ) : ( result )}
FormShown == ~RenderThrows /\ resultado = Null
ResultShown == ~RenderThrows /\ resultado # Null

\* SubmitEnabled without disabled={loading}
SubmitEnabled_WhileLoading == FormShown

\* the submit button: rendered with the form, disabled={loading}
SubmitEnabled == FormShown /\ ~loading

\* the upload area of the image tab, the upload link of the audio tab
UploadShown ==
    /\ FormShown
    /\ formato \in {"image", "audio"}
    /\ ~Truthy(archivoBase64)
    /\ (formato = "audio" /\ revision = "part_000" => ~isRecording)

\* the X button next to the file name
ClearShown == FormShown /\ formato \in {"image", "audio"} /\ Truthy(archivoBase64)

\* the microphone button and the stop button of the audio tab
StartShown ==
    /\ revision = "part_000"
    /\ FormShown /\ formato = "audio" /\ ~Truthy(archivoBase64) /\ ~isRecording
StopShown ==
    /\ revision = "part_000"
    /\ FormShown /\ formato = "audio" /\ ~Truthy(archivoBase64) /\ isRecording

\* the error banner: {error && ( ... )}, inside the form branch only
ErrorShown == FormShown /\ error # ""

\* the Guardar PDF button: rendered with the result, disabled={generatingPDF}
PdfEnabled == ResultShown /\ (revision = "part_000" => ~generatingPDF)

(***************************************************************************)
(* Input capture: typing, tabs, files.                                      *)
(***************************************************************************)
\* onChange of the textarea, rendered in the text tab only
setTextoRequerimiento(v) ==
    /\ FormShown /\ formato = "text"
    /\ textoRequerimiento' = v
    /\ UNCHANGED <<revision, formato, nombre, email, ciudad, archivoBase64,
                   nombreArchivo, origen, quoteVars, pdfVars, recVars, catVars,
                   readers>>

\* onChange of the name input
setNombre(v) ==
    /\ FormShown
    /\ nombre' = v
    /\ UNCHANGED <<revision, formato, email, ciudad, textoRequerimiento,
                   archivoBase64, nombreArchivo, origen, quoteVars, pdfVars,
                   recVars, catVars, readers>>

\* onChange of the email input
setEmail(v) ==
    /\ FormShown
    /\ email' = v
    /\ UNCHANGED <<revision, formato, nombre, ciudad, textoRequerimiento,
                   archivoBase64, nombreArchivo, origen, quoteVars, pdfVars,
                   recVars, catVars, readers>>

\* onChange of the city input
setCiudad(v) ==
    /\ FormShown
    /\ ciudad' = v
    /\ UNCHANGED <<revision, formato, nombre, email, textoRequerimiento,
                   archivoBase64, nombreArchivo, origen, quoteVars, pdfVars,
                   recVars, catVars, readers>>

\* TabReset without setTextoRequerimiento("")
TabReset_KeepsText(f) ==
    /\ formato' = f
    /\ archivoBase64' = <<>>
    /\ nombreArchivo' = ""
    /\ textoRequerimiento' = textoRequerimiento

\* what the onClick of tab f writes
TabReset(f) ==
    /\ formato' = f
    /\ archivoBase64' = <<>>
    /\ nombreArchivo' = ""
    /\ textoRequerimiento' = <<>>

\* onClick of one of the three tabs (the active one included)
tabClick(f) ==
    /\ FormShown
    /\ TabReset(f)
    /\ origen' = "none"
    /\ UNCHANGED <<revision, nombre, email, ciudad, quoteVars, pdfVars,
                   recVars, catVars, readers>>

\* handleFileChange with a file chosen: the name is stored at once, the
\* payload when the read completes
handleFileChange(file) ==
    /\ UploadShown
    /\ Len(readers) < MaxReaders
    /\ nombreArchivo' = file.name
    /\ readers' = Append(readers, [kind |-> "file", type |-> file.type,
                                   bytes |-> file.bytes, origen |-> formato])
    /\ UNCHANGED <<revision, formato, nombre, email, ciudad,
                   textoRequerimiento, archivoBase64, origen, quoteVars,
                   pdfVars, recVars, catVars>>

\* sequence s without its i-th element
Remove(s, i) == SubSeq(s, 1, i - 1) \o SubSeq(s, i + 1, Len(s))

\* reader.onload: of handleFileChange (payload only) or of mediaRecorder.onstop
\* (payload and the name of the recording)
readerOnload(i, emptyAsBare) ==
    /\ i \in 1..Len(readers)
    /\ LET r == readers[i]
           base64 == SplitComma1(DataURL(r.type, r.bytes, emptyAsBare))
       IN /\ archivoBase64' = base64
          /\ origen' = IF Truthy(base64) THEN r.origen ELSE "none"
          /\ nombreArchivo' =
                 IF r.kind = "recording" THEN "Grabacion.webm" ELSE nombreArchivo
    /\ readers' = Remove(readers, i)
    /\ UNCHANGED <<revision, formato, nombre, email, ciudad,
                   textoRequerimiento, quoteVars, pdfVars, recVars, catVars>>

\* onClick of the X button next to the file name
clearFile ==
    /\ ClearShown
    /\ archivoBase64' = <<>>
    /\ nombreArchivo' = ""
    /\ origen' = "none"
    /\ UNCHANGED <<revision, formato, nombre, email, ciudad,
                   textoRequerimiento, quoteVars, pdfVars, recVars, catVars,
                   readers>>

(***************************************************************************)
(* Quote request: handleSubmit up to the fetch, and after it settles.       *)
(***************************************************************************)
\* ValidationMessage with the text compared to "" without trim()
ValidationMessage_NoTrim(fmt, texto, base64) ==
    IF fmt = "text"
    THEN IF texto = <<>> THEN "Escribe tu requerimiento" ELSE ""
    ELSE IF ~Truthy(base64)
         THEN IF fmt = "image" THEN "Selecciona un archivo de imagen"
                               ELSE "Selecciona un archivo de audio"
         ELSE ""

\* ValidationMessage without the check of the payload
ValidationMessage_NoPayloadCheck(fmt, texto, base64) ==
    IF fmt = "text" /\ Trim(texto) = <<>> THEN "Escribe tu requerimiento" ELSE ""

\* the message of the validation that fails, "" when the input is valid
ValidationMessage(fmt, texto, base64) ==
    IF fmt = "text"
    THEN IF Trim(texto) = <<>> THEN "Escribe tu requerimiento" ELSE ""
    ELSE IF ~Truthy(base64)
         THEN IF fmt = "image" THEN "Selecciona un archivo de imagen"
                               ELSE "Selecciona un archivo de audio"
         ELSE ""

\* Requerimiento with the text trimmed before it is sent
Requerimiento_Trimmed(fmt, texto, base64) ==
    IF fmt = "text" THEN Trim(texto) ELSE base64

\* let requerimiento: the typed text or the held payload
Requerimiento(fmt, texto, base64) == IF fmt = "text" THEN texto ELSE base64

\* x || "No indicado"
OrNoIndicado(x) == IF Truthy(x) THEN x ELSE <<"No indicado">>

\* x || undefined
OrUndefined(x) == IF Truthy(x) THEN x ELSE Undefined

\* body.data of the POST of src/unnamed/part_000 (ingresoFecha, the time of
\* the click, is left out)
CotizarBody ==
    [nombre |-> OrNoIndicado(nombre),
     requerimiento |-> Requerimiento(formato, textoRequerimiento, archivoBase64),
     formato |-> formato,
     email |-> OrNoIndicado(email),
     ciudad |-> OrNoIndicado(ciudad)]

\* body.data of the POST of src/pages/index.tsx
CotizarBodyIndex ==
    [nombre |-> nombre,
     requerimiento |-> Requerimiento(formato, textoRequerimiento, archivoBase64),
     formato |-> formato,
     email |-> OrUndefined(email),
     ciudad |-> OrUndefined(ciudad)]

\* IssueCotizar without setError("")
IssueCotizar_KeepsError(body) ==
    /\ error' = error
    /\ loading' = TRUE
    /\ resultado' = Null
    /\ cotizar' = Append(cotizar, [body |-> body, origen |-> origen])

\* setError(""); setLoading(true); setResultado(null); fetch(...)
IssueCotizar(body) ==
    /\ error' = ""
    /\ loading' = TRUE
    /\ resultado' = Null
    /\ cotizar' = Append(cotizar, [body |-> body, origen |-> origen])

\* setError(msg); return
RejectSubmit(msg) ==
    /\ error' = msg
    /\ UNCHANGED <<loading, resultado, cotizar>>

\* onClick of the submit button, src/unnamed/part_000
handleSubmit ==
    /\ revision = "part_000"
    /\ SubmitEnabled
    /\ Len(cotizar) < MaxInflight
    /\ LET msg == ValidationMessage(formato, textoRequerimiento, archivoBase64)
       IN IF msg # "" THEN RejectSubmit(msg) ELSE IssueCotizar(CotizarBody)
    /\ UNCHANGED <<revision, formVars, pdfVars, recVars, catVars, readers>>

\* handleSubmitIndex with the check of the requirement before that of the name
handleSubmitIndex_RequirementFirst ==
    /\ revision = "index"
    /\ SubmitEnabled
    /\ Len(cotizar) < MaxInflight
    /\ LET msg == ValidationMessage(formato, textoRequerimiento, archivoBase64)
       IN IF msg # "" THEN RejectSubmit(msg)
          ELSE IF Trim(nombre) = <<>> THEN RejectSubmit("El nombre es requerido")
          ELSE IssueCotizar(CotizarBodyIndex)
    /\ UNCHANGED <<revision, formVars, pdfVars, recVars, catVars, readers>>

\* onClick of the submit button, src/pages/index.tsx: the name comes first
handleSubmitIndex ==
    /\ revision = "index"
    /\ SubmitEnabled
    /\ Len(cotizar) < MaxInflight
    /\ LET msg == ValidationMessage(formato, textoRequerimiento, archivoBase64)
       IN IF Trim(nombre) = <<>> THEN RejectSubmit("El nombre es requerido")
          ELSE IF msg # "" THEN RejectSubmit(msg)
          ELSE IssueCotizar(CotizarBodyIndex)
    /\ UNCHANGED <<revision, formVars, pdfVars, recVars, catVars, readers>>

\* an exception object
Exception(isError, message) == [isError |-> isError, message |-> message]

\* what the try block of handleSubmit throws for an outcome of the fetch:
\* <<>> when it throws nothing, <<e>> when it throws e
Thrown(o) ==
    IF o.fetch = "rejected"
    THEN << Exception(TRUE, FetchFailedMessage) >>
    ELSE IF o.body.json = "invalid"
    THEN << Exception(TRUE, JsonSyntaxMessage) >>
    ELSE IF o.ok THEN <<>>
    ELSE IF o.body.json = "null"
    THEN << Exception(TRUE, NullPropertyMessage) >>
    ELSE << Exception(TRUE,
                      IF o.body.hasMensaje /\ o.body.mensaje # ""
                      THEN o.body.mensaje
                      ELSE "Error en la solicitud") >>

\* err instanceof Error ? err.message : "Error desconocido"
CatchMessage(err) == IF err.isError THEN err.message ELSE "Error desconocido"

\* the parsed body handed to setResultado
ParsedData(o) == IF o.body.json = "null" THEN Null ELSE o.body.value

\* cotizarSettled with setLoading(false) after setResultado instead of in a
\* finally block
cotizarSettled_NoFinally(i, o) ==
    /\ i \in 1..Len(cotizar)
    /\ IF Thrown(o) = <<>>
       THEN /\ resultado' = ParsedData(o)
            /\ error' = error
            /\ loading' = FALSE
       ELSE /\ error' = CatchMessage(Thrown(o)[1])
            /\ resultado' = resultado
            /\ loading' = loading
    /\ cotizar' = Remove(cotizar, i)
    /\ UNCHANGED <<revision, formVars, pdfVars, recVars, catVars, readers>>

\* the rest of handleSubmit (both revisions) once the fetch of request i has
\* settled with outcome o: setResultado or catch, then finally
cotizarSettled(i, o) ==
    /\ i \in 1..Len(cotizar)
    /\ IF Thrown(o) = <<>>
       THEN /\ resultado' = ParsedData(o)
            /\ error' = error
       ELSE /\ error' = CatchMessage(Thrown(o)[1])
            /\ resultado' = resultado
    /\ loading' = FALSE
    /\ cotizar' = Remove(cotizar, i)
    /\ UNCHANGED <<revision, formVars, pdfVars, recVars, catVars, readers>>

\* resetForm that also empties the three contact fields
resetForm_ClearsContact ==
    /\ ResultShown
    /\ formato' = "text"
    /\ textoRequerimiento' = <<>>
    /\ archivoBase64' = <<>>
    /\ nombreArchivo' = ""
    /\ resultado' = Null
    /\ error' = ""
    /\ origen' = "none"
    /\ nombre' = <<>>
    /\ email' = <<>>
    /\ ciudad' = <<>>
    /\ UNCHANGED <<revision, loading, cotizar, pdfVars, recVars, catVars,
                   readers>>

\* onClick of Nueva Cotizacion, rendered with the result
resetForm ==
    /\ ResultShown
    /\ formato' = "text"
    /\ textoRequerimiento' = <<>>
    /\ archivoBase64' = <<>>
    /\ nombreArchivo' = ""
    /\ resultado' = Null
    /\ error' = ""
    /\ origen' = "none"
    /\ UNCHANGED <<revision, nombre, email, ciudad, loading, cotizar, pdfVars,
                   recVars, catVars, readers>>

(***************************************************************************)
(* Recording controller (src/unnamed/part_000 only).                        *)
(***************************************************************************)
MicrophoneMessage == "No se pudo acceder al microfono. Verifica los permisos."

\* the getUserMedia calls not made yet
Unused == { i \in 1..MaxSessions : recorders[i].state = "unused" }

\* onClick of the microphone button: startRecording up to the await
startRecording ==
    /\ StartShown
    /\ Unused # {}
    /\ LET i == CHOOSE j \in Unused : \A k \in Unused : j <= k
       IN recorders' = [recorders EXCEPT ![i].state = "asking"]
    /\ UNCHANGED <<revision, formVars, quoteVars, pdfVars, catVars, readers,
                   isRecording, recordingTime, mediaRecorderRef,
                   audioChunksRef, recordingIntervalRef, timers>>

\* startRecording after getUserMedia resolved for call i: a recorder on the
\* new stream, a fresh chunk array, start(), the state and the interval
getUserMediaResolved(i) ==
    /\ i \in 1..MaxSessions
    /\ recorders[i].state = "asking"
    /\ mediaRecorderRef' = i
    /\ audioChunksRef' = <<>>
    /\ recorders' = [recorders EXCEPT ![i] = [state |-> "recording",
                                               stream |-> "open"]]
    /\ isRecording' = TRUE
    /\ recordingTime' = 0
    /\ timers' = timers \cup {i}
    /\ recordingIntervalRef' = i
    /\ UNCHANGED <<revision, formVars, quoteVars, pdfVars, catVars, readers>>

\* getUserMediaRejected of a startRecording that calls setIsRecording(true)
\* before the await and never undoes it
getUserMediaRejected_SetsRecording(i) ==
    /\ i \in 1..MaxSessions
    /\ recorders[i].state = "asking"
    /\ recorders' = [recorders EXCEPT ![i].state = "denied"]
    /\ error' = MicrophoneMessage
    /\ isRecording' = TRUE
    /\ UNCHANGED <<revision, formVars, loading, resultado, cotizar, pdfVars,
                   catVars, readers, recordingTime, mediaRecorderRef,
                   audioChunksRef, recordingIntervalRef, timers>>

\* startRecording after getUserMedia rejected for call i: the catch
getUserMediaRejected(i) ==
    /\ i \in 1..MaxSessions
    /\ recorders[i].state = "asking"
    /\ recorders' = [recorders EXCEPT ![i].state = "denied"]
    /\ error' = MicrophoneMessage
    /\ UNCHANGED <<revision, formVars, loading, resultado, cotizar, pdfVars,
                   catVars, readers, isRecording, recordingTime,
                   mediaRecorderRef, audioChunksRef, recordingIntervalRef,
                   timers>>

\* the callback of setInterval of call i: setRecordingTime(prev => prev + 1)
recordingTick(i) ==
    /\ i \in timers
    /\ recordingTime < MaxTime
    /\ recordingTime' = recordingTime + 1
    /\ UNCHANGED <<revision, formVars, quoteVars, pdfVars, catVars, readers,
                   isRecording, mediaRecorderRef, audioChunksRef,
                   recordingIntervalRef, recorders, timers>>

\* onClick of Detener grabacion.  MediaRecorder.stop() on a recorder that is
\* not recording throws, and the rest of the handler does not run.
stopRecording ==
    /\ StopShown
    /\ IF mediaRecorderRef # 0 /\ isRecording
          /\ recorders[mediaRecorderRef].state = "recording"
       THEN /\ recorders' = [recorders EXCEPT ![mediaRecorderRef].state = "stopping"]
            /\ isRecording' = FALSE
            /\ IF recordingIntervalRef # 0
               THEN /\ timers' = timers \ {recordingIntervalRef}
                    /\ recordingIntervalRef' = 0
               ELSE UNCHANGED <<timers, recordingIntervalRef>>
       ELSE UNCHANGED <<recorders, isRecording, timers, recordingIntervalRef>>
    /\ UNCHANGED <<revision, formVars, quoteVars, pdfVars, catVars, readers,
                   recordingTime, mediaRecorderRef, audioChunksRef>>

\* the bytes of new Blob(chunks)
RECURSIVE BlobBytes(_)
BlobBytes(chunks) ==
    IF chunks = <<>> THEN <<>> ELSE Head(chunks).data \o BlobBytes(Tail(chunks))

\* ondataavailable with the test of the size inverted
ondataavailable_Inverted(chunks, i, data) ==
    IF Len(data) = 0 THEN Append(chunks, [session |-> i, data |-> data]) ELSE chunks

\* ondataavailable: chunks of size 0 are dropped
ondataavailable(chunks, i, data) ==
    IF Len(data) > 0 THEN Append(chunks, [session |-> i, data |-> data]) ELSE chunks

\* The task a stop() of recorder i queues: dataavailable with the data
\* recorded (start() has no timeslice, so this is the only one), then stop.
\* onstop reads the chunk array as it is now, starts the read of the blob and
\* stops the tracks of its own stream.
recorderStopped(i, data) ==
    /\ i \in 1..MaxSessions
    /\ recorders[i].state = "stopping"
    /\ Len(readers) < MaxReaders
    /\ audioChunksRef' = ondataavailable(audioChunksRef, i, data)
    /\ readers' = Append(readers, [kind |-> "recording", type |-> "audio/webm",
                                   bytes |-> BlobBytes(audioChunksRef'),
                                   origen |-> "audio"])
    /\ recorders' = [recorders EXCEPT ![i] = [state |-> "inactive",
                                               stream |-> "closed"]]
    /\ UNCHANGED <<revision, formVars, quoteVars, pdfVars, catVars,
                   isRecording, recordingTime, mediaRecorderRef,
                   recordingIntervalRef, timers>>

(***************************************************************************)
(* Catalog viewer.                                                          *)
(***************************************************************************)
\* FilterProductos without the test for "todas"
RECURSIVE FilterProductos_NoTodas(_, _)
FilterProductos_NoTodas(productos, cat) ==
    IF productos = <<>> THEN <<>>
    ELSE (IF Head(productos).categoria = cat THEN <<Head(productos)>> ELSE <<>>)
         \o FilterProductos_NoTodas(Tail(productos), cat)

\* productos.filter(p => cat === "todas" || p.categoria === cat)
RECURSIVE FilterProductos(_, _)
FilterProductos(productos, cat) ==
    IF productos = <<>> THEN <<>>
    ELSE (IF cat = "todas" \/ Head(productos).categoria = cat
          THEN <<Head(productos)>> ELSE <<>>)
         \o FilterProductos(Tail(productos), cat)

\* catalogo?.productos.filter(...) || []
productosFiltrados ==
    IF catalogo = Null THEN <<>>
    ELSE FilterProductos(catalogo.productos, categoriaActiva)

\* the spinner of the catalog column, and the line shown for an empty list
LoadingShown == ~RenderThrows /\ loadingCatalogo
NoProductsShown ==
    ~RenderThrows /\ ~loadingCatalogo /\ Len(productosFiltrados) = 0

\* the filter buttons taken from the categoria values of the products
CategoryButtons_Derived ==
    IF RenderThrows THEN {}
    ELSE {"todas"} \cup (IF catalogo = Null THEN {}
                         ELSE { catalogo.productos[k].categoria :
                                  k \in 1..Len(catalogo.productos) })

\* the filter buttons: Todas, and one per entry of catalogo.categorias
CategoryButtons ==
    IF RenderThrows THEN {}
    ELSE {"todas"} \cup (IF catalogo = Null THEN {}
                         ELSE { catalogo.categorias[k] :
                                  k \in 1..Len(catalogo.categorias) })

\* onClick of a filter button
setCategoriaActiva(cat) ==
    /\ ~RenderThrows
    /\ cat \in CategoryButtons
    /\ categoriaActiva' = cat
    /\ UNCHANGED <<revision, formVars, quoteVars, pdfVars, recVars, readers,
                   catalogo, loadingCatalogo, catalogoFetch, catalogoGets>>

\* what the try block of fetchCatalogo throws for an outcome of the fetch;
\* response.ok is not looked at
CatalogoThrown(o) == o.fetch = "rejected" \/ o.body.json = "invalid"

\* the parsed body handed to setCatalogo
CatalogoData(o) == IF o.body.json = "null" THEN Null ELSE o.body.value

\* catalogoSettled with setLoadingCatalogo(false) after setCatalogo instead of
\* in a finally block
catalogoSettled_NoFinally(o) ==
    /\ catalogoFetch = "pending"
    /\ catalogo' = IF CatalogoThrown(o) THEN catalogo ELSE CatalogoData(o)
    /\ loadingCatalogo' = IF CatalogoThrown(o) THEN loadingCatalogo ELSE FALSE
    /\ catalogoFetch' = "settled"
    /\ UNCHANGED <<revision, formVars, quoteVars, pdfVars, recVars, readers,
                   categoriaActiva, catalogoGets>>

\* catalogoSettled with the catch block reporting the failure through setError
catalogoSettled_SetsError(o) ==
    /\ catalogoFetch = "pending"
    /\ catalogo' = IF CatalogoThrown(o) THEN catalogo ELSE CatalogoData(o)
    /\ error' = IF CatalogoThrown(o) THEN "Error al cargar el catalogo" ELSE error
    /\ loadingCatalogo' = FALSE
    /\ catalogoFetch' = "settled"
    /\ UNCHANGED <<revision, formVars, loading, resultado, cotizar, pdfVars,
                   recVars, readers, categoriaActiva, catalogoGets>>

\* fetchCatalogo once its fetch has settled with outcome o: setCatalogo or
\* catch, then finally
catalogoSettled(o) ==
    /\ catalogoFetch = "pending"
    /\ catalogo' = IF CatalogoThrown(o) THEN catalogo ELSE CatalogoData(o)
    /\ loadingCatalogo' = FALSE
    /\ catalogoFetch' = "settled"
    /\ UNCHANGED <<revision, formVars, quoteVars, pdfVars, recVars, readers,
                   categoriaActiva, catalogoGets>>

(***************************************************************************)
(* PDF export.                                                              *)
(***************************************************************************)
PdfMessage == "Error al generar el PDF. Intenta de nuevo."

\* the steps of handleDownloadPDF that can throw, and "ok"
PdfOutcomes == {"ok", "import", "html2canvas", "addImage", "save"}

\* Cotizacion_<cliente>_<date>.pdf (the date is left out)
PdfFileName(r) ==
    LET c == ReplaceSpaces(r.cliente)
    IN <<"Cotizacion_">> \o (IF c # <<>> THEN c ELSE <<"Cliente">>) \o <<".pdf">>

\* onClick of Guardar PDF, src/unnamed/part_000, up to the first await
handleDownloadPDF ==
    /\ revision = "part_000"
    /\ PdfEnabled
    /\ Len(pdfJobs) < MaxPdfJobs
    /\ generatingPDF' = TRUE
    /\ pdfJobs' = Append(pdfJobs, resultado)
    /\ UNCHANGED <<revision, formVars, quoteVars, recVars, catVars, readers,
                   descargas>>

\* pdfSettled with setGeneratingPDF(false) as the last statement of the try
\* block instead of in a finally block
pdfSettled_NoFinally(i, o) ==
    /\ revision = "part_000"
    /\ i \in 1..Len(pdfJobs)
    /\ IF o = "ok"
       THEN /\ descargas' = descargas \cup {PdfFileName(pdfJobs[i])}
            /\ error' = error
            /\ generatingPDF' = FALSE
       ELSE /\ error' = PdfMessage
            /\ descargas' = descargas
            /\ generatingPDF' = generatingPDF
    /\ pdfJobs' = Remove(pdfJobs, i)
    /\ UNCHANGED <<revision, formVars, loading, resultado, cotizar, recVars,
                   catVars, readers>>

\* the rest of handleDownloadPDF of src/unnamed/part_000: the file is saved,
\* or a step throws and the catch sets the message; then finally
pdfSettled(i, o) ==
    /\ revision = "part_000"
    /\ i \in 1..Len(pdfJobs)
    /\ IF o = "ok"
       THEN /\ descargas' = descargas \cup {PdfFileName(pdfJobs[i])}
            /\ error' = error
       ELSE /\ error' = PdfMessage
            /\ descargas' = descargas
    /\ generatingPDF' = FALSE
    /\ pdfJobs' = Remove(pdfJobs, i)
    /\ UNCHANGED <<revision, formVars, loading, resultado, cotizar, recVars,
                   catVars, readers>>

\* onClick of Guardar PDF, src/pages/index.tsx: no flag, no catch
handleDownloadPDFIndex ==
    /\ revision = "index"
    /\ PdfEnabled
    /\ Len(pdfJobs) < MaxPdfJobs
    /\ pdfJobs' = Append(pdfJobs, resultado)
    /\ UNCHANGED <<revision, formVars, quoteVars, recVars, catVars, readers,
                   generatingPDF, descargas>>

\* the rest of handleDownloadPDF of src/pages/index.tsx: the file is saved, or
\* the promise rejects unhandled
pdfSettledIndex(i, o) ==
    /\ revision = "index"
    /\ i \in 1..Len(pdfJobs)
    /\ descargas' = IF o = "ok" THEN descargas \cup {PdfFileName(pdfJobs[i])}
                    ELSE descargas
    /\ pdfJobs' = Remove(pdfJobs, i)
    /\ UNCHANGED <<revision, formVars, quoteVars, recVars, catVars, readers,
                   generatingPDF>>

(***************************************************************************)
(* Quotation view (the result branch of the JSX).                           *)
(***************************************************************************)
DigitChars == <<"0", "1", "2", "3", "4", "5", "6", "7", "8", "9">>

\* the decimal digits of a natural number
RECURSIVE Digits(_)
Digits(n) ==
    IF n < 10 THEN <<DigitChars[n + 1]>>
    ELSE Digits(n \div 10) \o <<DigitChars[(n % 10) + 1]>>

\* x.toFixed(2) of an amount of the given number of cents
ToFixed2(cents) ==
    Digits(cents \div 100)
    \o <<".", DigitChars[((cents % 100) \div 10) + 1], DigitChars[(cents % 10) + 1]>>

\* one row of the table: resultado.items.map((item, idx) => <tr>...)
QuoteRow(item) ==
    [nombre |-> item.nombre,
     cantidad |-> item.cantidad,
     precioUnitario |-> ToFixed2(item.precioUnitario),
     subtotal |-> ToFixed2(item.subtotal)]

\* QuoteView with the total computed from the subtotal and the tax
QuoteView_Recomputed(r) ==
    [cliente |-> r.cliente,
     fecha |-> r.fecha,
     interpretado |->
        IF r.debug # <<>> /\ r.debug[1].textoInterpretado # ""
        THEN <<r.debug[1].textoInterpretado>> ELSE <<>>,
     rows |-> [k \in 1..Len(r.items) |-> QuoteRow(r.items[k])],
     subtotal |-> ToFixed2(r.subtotal),
     iva |-> ToFixed2(r.iva),
     total |-> ToFixed2(r.subtotal + r.iva)]

\* what the result view shows of a quotation r
QuoteView(r) ==
    [cliente |-> r.cliente,
     fecha |-> r.fecha,
     interpretado |->
        IF r.debug # <<>> /\ r.debug[1].textoInterpretado # ""
        THEN <<r.debug[1].textoInterpretado>> ELSE <<>>,
     rows |-> [k \in 1..Len(r.items) |-> QuoteRow(r.items[k])],
     subtotal |-> ToFixed2(r.subtotal),
     iva |-> ToFixed2(r.iva),
     total |-> ToFixed2(r.total)]

(***************************************************************************)
(* Specifications.                                                          *)
(***************************************************************************)
Init == InitRev(Revisions)

\* input capture and the quote request, both revisions
Next ==
    \/ \E v \in Texts : setTextoRequerimiento(v)
    \/ \E v \in Names : setNombre(v)
    \/ \E f \in InputFormats : tabClick(f)
    \/ \E file \in Files : handleFileChange(file)
    \/ \E i \in 1..MaxReaders, b \in BOOLEAN : readerOnload(i, b)
    \/ clearFile
    \/ handleSubmit
    \/ handleSubmitIndex
    \/ \E i \in 1..MaxInflight, o \in Outcomes : cotizarSettled(i, o)
    \/ resetForm

Spec == Init /\ [][Next]_vars

\* the later revision: the recording controller, with the tabs and the files
\* of the form around it
NextRec ==
    \/ \E f \in InputFormats : tabClick(f)
    \/ \E file \in Files : handleFileChange(file)
    \/ clearFile
    \/ startRecording
    \/ \E i \in 1..MaxSessions : getUserMediaResolved(i)
    \/ \E i \in 1..MaxSessions : getUserMediaRejected(i)
    \/ \E i \in 1..MaxSessions : recordingTick(i)
    \/ stopRecording
    \/ \E i \in 1..MaxSessions, d \in ChunkData : recorderStopped(i, d)
    \/ \E i \in 1..MaxReaders, b \in BOOLEAN : readerOnload(i, b)

SpecRec == InitRev({"part_000"}) /\ [][NextRec]_vars

\* the later revision: the three operations that can fail (quote request,
\* microphone permission, PDF export) with what the user needs to reach them.
\* The permission is denied whenever it is asked for; SpecRec has the
\* recordings that start.
NextFail ==
    \/ \E v \in Texts : setTextoRequerimiento(v)
    \/ \E f \in InputFormats : tabClick(f)
    \/ handleSubmit
    \/ \E i \in 1..MaxInflight, o \in Outcomes : cotizarSettled(i, o)
    \/ resetForm
    \/ handleDownloadPDF
    \/ \E i \in 1..MaxPdfJobs, o \in PdfOutcomes : pdfSettled(i, o)
    \/ startRecording
    \/ \E i \in 1..MaxSessions : getUserMediaRejected(i)

\* A fetch settles and a PDF export ends: the promises of the platform are
\* settled without any action of the user.  Nothing is assumed of the user.
FairSpec ==
    /\ InitRev({"part_000"})
    /\ [][NextFail]_vars
    /\ WF_vars(\E i \in 1..MaxInflight, o \in Outcomes : cotizarSettled(i, o))
    /\ WF_vars(\E i \in 1..MaxPdfJobs, o \in PdfOutcomes : pdfSettled(i, o))

\* the later revision: a recording from the click on the microphone to the
\* submission of its payload.  No interval fires: every recording is stopped
\* within its first second.
NextAudio ==
    \/ \E f \in InputFormats : tabClick(f)
    \/ clearFile
    \/ startRecording
    \/ \E i \in 1..MaxSessions : getUserMediaResolved(i)
    \/ stopRecording
    \/ \E i \in 1..MaxSessions, d \in ChunkData : recorderStopped(i, d)
    \/ \E i \in 1..MaxReaders, b \in BOOLEAN : readerOnload(i, b)
    \/ handleSubmit
    \/ \E i \in 1..MaxInflight, o \in Outcomes : cotizarSettled(i, o)
    \/ resetForm

SpecAudio == InitRev({"part_000"}) /\ [][NextAudio]_vars

\* the later revision: the catalog column, next to a form in which a text
\* can be typed and submitted.  The GET /catalogo settles without any action of
\* the user.
NextCat ==
    \/ \E o \in CatalogoOutcomes : catalogoSettled(o)
    \/ \E cat \in {"todas", "sillas", "mesas", "sofas"} : setCategoriaActiva(cat)
    \/ \E v \in Texts : setTextoRequerimiento(v)
    \/ handleSubmit
    \/ \E i \in 1..MaxInflight, o \in Outcomes : cotizarSettled(i, o)
    \/ resetForm

FairCat ==
    /\ InitRev({"part_000"})
    /\ [][NextCat]_vars
    /\ WF_vars(\E o \in CatalogoOutcomes : catalogoSettled(o))

\* The whole page of the later revision: the quote flow (typing, tabs, a
\* file, one recording, submit, response, reset, PDF export) beside the
\* catalog viewer.  One file and one quotation are used, a read of an empty
\* blob gives "data:<type>;base64,", and only the first microphone prompt is
\* answered (granted or denied).
NextPage ==
    \/ \E v \in {<<"a">>} : setTextoRequerimiento(v)
    \/ \E f \in InputFormats : tabClick(f)
    \/ \E file \in {f \in Files : f.name = "silla.png"} : handleFileChange(file)
    \/ \E i \in 1..MaxReaders, b \in {FALSE} : readerOnload(i, b)
    \/ clearFile
    \/ handleSubmit
    \/ \E i \in 1..MaxInflight,
          o \in {x \in Outcomes :
                   \/ x.fetch = "rejected"
                   \/ (x.ok /\ x.body.json = "cotizacion"
                            /\ x.body.value.total = 5950)} :
          cotizarSettled(i, o)
    \/ resetForm
    \/ startRecording
    \/ \E i \in {1} : getUserMediaResolved(i)
    \/ \E i \in {1} : getUserMediaRejected(i)
    \/ stopRecording
    \/ \E i \in {1}, d \in {<<26>>} : recorderStopped(i, d)
    \/ handleDownloadPDF
    \/ \E i \in 1..MaxPdfJobs, o \in {"ok", "save"} : pdfSettled(i, o)
    \/ \E o \in CatalogoOutcomes : catalogoSettled(o)
    \/ \E cat \in {"todas", "sillas"} : setCategoriaActiva(cat)

SpecPage == InitRev({"part_000"}) /\ [][NextPage]_vars

\* The form and result cycle of both revisions: the three contact fields, a
\* text, the tabs, submit, one quotation, the PDF export, reset, beside a
\* recording that is started and left running (its counter included) and the
\* catalog with a filter.
NextForm ==
    \/ \E v \in {<<"a">>} : setTextoRequerimiento(v)
    \/ \E v \in Names : setNombre(v)
    \/ \E v \in Names : setEmail(v)
    \/ \E v \in Names : setCiudad(v)
    \/ \E f \in InputFormats : tabClick(f)
    \/ handleSubmit
    \/ handleSubmitIndex
    \/ \E i \in 1..MaxInflight,
          o \in {x \in Outcomes :
                   /\ x.fetch = "response" /\ x.ok
                   /\ x.body.json = "cotizacion"
                   /\ x.body.value.total = 5950} :
          cotizarSettled(i, o)
    \/ resetForm
    \/ startRecording
    \/ \E i \in {1} : getUserMediaResolved(i)
    \/ \E i \in {1} : recordingTick(i)
    \/ handleDownloadPDF
    \/ handleDownloadPDFIndex
    \/ \E i \in 1..MaxPdfJobs, o \in {"ok"} : pdfSettled(i, o)
    \/ \E i \in 1..MaxPdfJobs, o \in {"ok"} : pdfSettledIndex(i, o)
    \/ \E o \in {x \in CatalogoOutcomes :
                   /\ x.fetch = "response" /\ x.ok
                   /\ x.body.json = "catalogo"
                   /\ x.body.value.total = 3} :
          catalogoSettled(o)
    \/ \E cat \in {"todas", "sillas"} : setCategoriaActiva(cat)

SpecForm == Init /\ [][NextForm]_vars

(***************************************************************************)
(* Claims.                                                                  *)
(***************************************************************************)
\* empty or made of white space only
IsBlank(s) == \A k \in 1..Len(s) : s[k] \in {" ", "\t", "\n"}

\* no encoded payload is held
NoPayload == archivoBase64 = <<>> \/ archivoBase64 = Undefined

\* a click on submit, in either revision
SubmitStep == handleSubmit \/ handleSubmitIndex

\* the request a step has just issued
Issued == cotizar'[Len(cotizar')]

\* a step that issues exactly one POST and leaves the pending ones alone
IssuesOne ==
    /\ Len(cotizar') = Len(cotizar) + 1
    /\ SubSeq(cotizar', 1, Len(cotizar)) = cotizar

\* C1: a click on submit with a blank text in the text tab, or with no payload
\* in the image or audio tab, sets a non-empty error message, issues no POST
\* and leaves loading false.
C1_ValidationBlocks ==
    [][ (SubmitStep /\ (IF formato = "text" THEN IsBlank(textoRequerimiento)
                                            ELSE NoPayload))
        => (error' # "" /\ cotizar' = cotizar /\ loading' = FALSE) ]_vars

\* C1 witness: a white-space text was refused in the text tab
C1_Witness ==
    /\ error = "Escribe tu requerimiento"
    /\ formato = "text" /\ textoRequerimiento = <<" ">>
    /\ cotizar = <<>> /\ ~loading

\* C2: a click on submit in the text tab with a non-blank text and a non-blank
\* name issues exactly one POST, with formato "text" and the typed text,
\* untrimmed, as requerimiento.
C2_TextSubmission ==
    [][ (SubmitStep /\ formato = "text" /\ ~IsBlank(textoRequerimiento)
                    /\ ~IsBlank(nombre))
        => (/\ IssuesOne
            /\ Issued.body.formato = "text"
            /\ Issued.body.requerimiento = textoRequerimiento) ]_vars

\* C2 witness: a text with white space around it is in flight as typed
C2_Witness ==
    /\ Len(cotizar) = 1
    /\ cotizar[1].body.formato = "text"
    /\ cotizar[1].body.requerimiento = <<" ", "a", " ">>
    /\ nombre = <<"A">>

\* C3: every POST issued carries a non-empty requerimiento and the modality
\* active at the click as formato; the requerimiento is the typed text in the
\* text tab and the held payload in the image and audio tabs.
C3_EveryPost ==
    [][ (Len(cotizar') > Len(cotizar))
        => (/\ IssuesOne
            /\ Issued.body.requerimiento # <<>>
            /\ Issued.body.requerimiento # Undefined
            /\ Issued.body.formato \in {"text", "image", "audio"}
            /\ Issued.body.formato = formato
            /\ Issued.body.requerimiento =
                  IF formato = "text" THEN textoRequerimiento
                                      ELSE archivoBase64) ]_vars

\* C3 witness: the payload of silla.png is in flight from the image tab
C3_Witness ==
    /\ Len(cotizar) = 1
    /\ cotizar[1].body.formato = "image"
    /\ cotizar[1].body.requerimiento = <<"i", "V", "A", "=">>

\* C4: a click on tab f leaves f active and the text, the payload and the
\* file name empty; a click on tab f in a state that is already so changes
\* nothing the page holds (the same switch twice is the same as once).
C4_TabSwitch ==
    [][ \A f \in InputFormats :
          tabClick(f)
          => (/\ formato' = f
              /\ textoRequerimiento' = <<>>
              /\ archivoBase64' = <<>>
              /\ nombreArchivo' = ""
              /\ ( (/\ formato = f
                    /\ textoRequerimiento = <<>>
                    /\ archivoBase64 = <<>>
                    /\ nombreArchivo = "")
                   => UNCHANGED vars )) ]_vars

\* C4 witness: a file was chosen in the image tab, then the audio tab clicked
C4_Witness ==
    /\ formato = "audio"
    /\ textoRequerimiento = <<>> /\ archivoBase64 = <<>> /\ nombreArchivo = ""
    /\ Len(readers) = 1 /\ readers[1].origen = "image"

\* C9: at most one POST is in flight, and while one is the submit control is
\* disabled.
C9_OneInFlight ==
    /\ Len(cotizar) <= 1
    /\ (cotizar # <<>> => ~SubmitEnabled /\ loading)

\* C9 witness: a request is in flight
C9_Witness == Len(cotizar) = 1 /\ loading /\ FormShown

\* C5: a payload held by the form was captured under the active modality, and
\* no POST carries a payload captured under a modality other than its formato.
C5_NoRetention ==
    /\ (Truthy(archivoBase64) => origen = formato)
    /\ \A k \in 1..Len(cotizar) :
          cotizar[k].body.formato # "text"
          => cotizar[k].origen = cotizar[k].body.formato

\* what C6 says the inline error is for the body of a non-success response
MensajeOrFallback(body) ==
    IF body.json = "error" /\ body.hasMensaje /\ body.mensaje # ""
    THEN body.mensaje
    ELSE "Error en la solicitud"

\* C6: when a request settles with a non-success status, the error becomes the
\* mensaje of the body if it has a non-empty one and "Error en la solicitud"
\* otherwise, and resultado stays null.
C6_ErrorStatus ==
    [][ \A i \in 1..MaxInflight, o \in Outcomes :
          (cotizarSettled(i, o) /\ o.fetch = "response" /\ ~o.ok)
          => (error' = MensajeOrFallback(o.body) /\ resultado' = Null) ]_vars

\* C7: when a request settles with a network error or with a body that is not
\* JSON, the error shown is a generic message, not the text of the exception.
C7_GenericMessage ==
    [][ \A i \in 1..MaxInflight, o \in Outcomes :
          (cotizarSettled(i, o)
             /\ (o.fetch = "rejected" \/ o.body.json = "invalid"))
          => (/\ error' \in {"Error en la solicitud", "Error desconocido"}
              /\ error' \notin {FetchFailedMessage, JsonSyntaxMessage}) ]_vars

\* C10: when getUserMedia rejects, the error becomes the microphone message
\* and nothing of the recording controller or of the payload changes: an idle
\* controller stays idle, no interval is created, no recorder or stream is
\* kept.
C10_DeniedStaysIdle ==
    [][ \A i \in 1..MaxSessions :
          getUserMediaRejected(i)
          => (/\ error' = MicrophoneMessage
              /\ isRecording' = isRecording
              /\ recordingTime' = recordingTime
              /\ timers' = timers
              /\ recordingIntervalRef' = recordingIntervalRef
              /\ mediaRecorderRef' = mediaRecorderRef
              /\ mediaRecorderRef' # i
              /\ audioChunksRef' = audioChunksRef
              /\ recorders'[i].stream = "none"
              /\ recorders'[i].state \notin {"recording", "stopping"}
              /\ \A j \in 1..MaxSessions \ {i} : recorders'[j] = recorders[j]
              /\ archivoBase64' = archivoBase64
              /\ nombreArchivo' = nombreArchivo) ]_vars

\* C10 witness: the first start was denied and the controller is idle
C10_Witness ==
    /\ error = MicrophoneMessage
    /\ recorders[1].state = "denied" /\ recorders[1].stream = "none"
    /\ ~isRecording /\ timers = {} /\ mediaRecorderRef = 0

\* a fetch outcome that is a failure: rejected, not JSON, or an error status
FailedOutcome(o) == o.fetch = "rejected" \/ o.body.json = "invalid" \/ ~o.ok

\* C8: every failure ends in a state from which the user can go on.  The step
\* in which a quote request fails leaves loading false and the submit button
\* rendered and enabled; the step in which the microphone is denied sets no
\* busy flag (an idle controller stays idle, so the start button stays); the
\* step in which the PDF export fails leaves generatingPDF false, so the save
\* button is enabled wherever the result is shown.  No busy flag stays set for
\* ever: loading and generatingPDF each become false again, and the page is
\* again and again in a state where both are false.
C8_FailureRecovers ==
    /\ [][ \A i \in 1..MaxInflight, o \in Outcomes :
             (cotizarSettled(i, o) /\ FailedOutcome(o))
             => (~loading' /\ SubmitEnabled') ]_vars
    /\ [][ \A i \in 1..MaxSessions :
             getUserMediaRejected(i)
             => (/\ isRecording' = isRecording
                 /\ loading' = loading
                 /\ generatingPDF' = generatingPDF
                 /\ (StartShown => StartShown')) ]_vars
    /\ [][ \A i \in 1..MaxPdfJobs, o \in PdfOutcomes :
             (pdfSettled(i, o) /\ o # "ok")
             => (~generatingPDF' /\ (ResultShown' => PdfEnabled')) ]_vars
    /\ (loading ~> ~loading)
    /\ (generatingPDF ~> ~generatingPDF)
    /\ []<>(~loading /\ ~generatingPDF)

\* C8 witness: a PDF export has failed while the result is shown, and the save
\* button is enabled again
C8_Witness ==
    /\ error = PdfMessage
    /\ ResultShown /\ ~generatingPDF /\ ~loading /\ pdfJobs = <<>>

\* the chunks of the array that recorder i delivered
OwnChunks(chunks, i) == SelectSeq(chunks, LAMBDA c : c.session = i)

\* a microphone stream is open
StreamOpen == \E i \in 1..MaxSessions : recorders[i].stream = "open"

\* C11: a click on stop while recording leaves the controller idle; when the
\* stop callback of recorder i runs, its stream is closed and the blob it hands
\* to the reader is the concatenation, in delivery order, of the chunks
\* recorder i delivered; when the read of a recording completes the payload is
\* the base64 encoding of that blob; and in every state in which the
\* controller is idle and no stop callback is pending, no stream is open.
C11_StopReleases ==
    /\ [][ (stopRecording /\ isRecording) => ~isRecording' ]_vars
    /\ [][ \A i \in 1..MaxSessions, d \in ChunkData :
             recorderStopped(i, d)
             => (/\ recorders'[i].stream = "closed"
                 /\ readers'[Len(readers')].bytes
                      = BlobBytes(OwnChunks(audioChunksRef', i))) ]_vars
    /\ [][ \A k \in 1..MaxReaders, b \in BOOLEAN :
             (readerOnload(k, b) /\ readers[k].kind = "recording"
                                 /\ readers[k].bytes # <<>>)
             => archivoBase64' = Base64Encode(readers[k].bytes) ]_vars
    /\ [][ (~isRecording' /\ \A i \in 1..MaxSessions :
                                recorders'[i].state # "stopping")
           => ~StreamOpen' ]_vars

\* C12: the callback of an interval increments recordingTime only while the
\* controller is recording.
C12_TimerStops ==
    [][ \A i \in 1..MaxSessions : recordingTick(i) => isRecording ]_vars

\* C14: whenever the controller is recording, the stop button is rendered.
C14_StopAvailable == isRecording => StopShown

FilterValues == {"todas", "sillas", "mesas", "sofas", "otra"}

\* C15: one GET /catalogo has been issued, at mount, and no step issues
\* another; the spinner is shown while the request is pending; the step in
\* which the request settles, whatever its outcome, leaves loadingCatalogo
\* false, it stays false, and it does become false; a click on a filter
\* button changes nothing of the request.
C15_OneCatalogFetch ==
    /\ [](catalogoGets = 1)
    /\ [](catalogoFetch = "pending" => LoadingShown)
    /\ [][ \A o \in CatalogoOutcomes :
             catalogoSettled(o) => ~loadingCatalogo' ]_vars
    /\ [][ ~loadingCatalogo => ~loadingCatalogo' ]_vars
    /\ [][ \A cat \in FilterValues :
             setCategoriaActiva(cat)
             => (/\ catalogoGets' = catalogoGets
                 /\ catalogoFetch' = catalogoFetch
                 /\ loadingCatalogo' = loadingCatalogo
                 /\ catalogo' = catalogo) ]_vars
    /\ <>(~loadingCatalogo)

\* C15 witness: the request has failed, the spinner is gone and a filter
\* cannot be chosen but Todas
C15_Witness ==
    /\ catalogoFetch = "settled" /\ catalogo = Null
    /\ ~loadingCatalogo /\ catalogoGets = 1

\* an outcome of the GET /catalogo that is a failure
CatalogoFailed(o) ==
    o.fetch = "rejected" \/ o.body.json = "invalid" \/ ~o.ok

\* C16: the step in which the GET /catalogo fails leaves the error message
\* as it was, the page rendered with an empty product list, and the submit
\* button enabled if it was.
C16_SilentFailure ==
    [][ \A o \in CatalogoOutcomes :
          (catalogoSettled(o) /\ CatalogoFailed(o))
          => (/\ error' = error
              /\ ~RenderThrows'
              /\ productosFiltrados' = <<>>
              /\ (SubmitEnabled => SubmitEnabled')) ]_vars

\* the k-th product of the list is of category cat
OfCategory(productos, k, cat) == productos[k].categoria = cat

\* C17: for every catalog and filter value, the filter "todas" gives the
\* product list itself and any other value the products of that category, in
\* the order of the list; the displayed list is that of the fetched catalog
\* and the active filter, and when it is empty the no-products line is shown.
C17_Filter ==
    /\ \A c \in Catalogos, f \in FilterValues :
          LET shown == FilterProductos(c.productos, f)
              kept == { k \in 1..Len(c.productos) :
                          f = "todas" \/ OfCategory(c.productos, k, f) }
          IN /\ (f = "todas" => shown = c.productos)
             /\ Len(shown) = Cardinality(kept)
             /\ \A n \in 1..Len(shown) :
                   \E k \in kept :
                      /\ shown[n] = c.productos[k]
                      /\ Cardinality({ j \in kept : j < k }) = n - 1
    /\ (catalogo # Null /\ ~RenderThrows)
       => (/\ productosFiltrados
                = FilterProductos(catalogo.productos, categoriaActiva)
           /\ (categoriaActiva = "todas"
                 => productosFiltrados = catalogo.productos)
           /\ (Len(productosFiltrados) = 0 => NoProductsShown))

\* C17 witness: the filter "sillas" shows the first and the third product
C17_Witness ==
    /\ catalogo # Null /\ ~RenderThrows
    /\ categoriaActiva = "sillas"
    /\ Len(productosFiltrados) = 2
    /\ productosFiltrados[1].id = "p1" /\ productosFiltrados[2].id = "p3"

\* the number of cents a displayed amount reads as (the point is skipped)
RECURSIVE ParseCents(_)
ParseCents(s) ==
    IF s = <<>> THEN 0
    ELSE IF s[Len(s)] = "." THEN ParseCents(SubSeq(s, 1, Len(s) - 1))
    ELSE 10 * ParseCents(SubSeq(s, 1, Len(s) - 1))
         + (CHOOSE d \in 0..9 : DigitChars[d + 1] = s[Len(s)])

\* the amounts a view shows
Amounts(v) == <<[k \in 1..Len(v.rows) |->
                   <<v.rows[k].cantidad, v.rows[k].precioUnitario,
                     v.rows[k].subtotal>>],
                v.subtotal, v.iva, v.total>>

\* C18: while a result is shown, the view has one row per received item, in
\* order, with the item's name and quantity and amounts that read as the
\* item's unit price and subtotal; the subtotal, tax and total shown read as
\* the received ones; and for every quotation the amounts shown are the same
\* with and without debug.textoInterpretado.
C18_PureProjection ==
    /\ ResultShown
       => LET v == QuoteView(resultado)
          IN /\ Len(v.rows) = Len(resultado.items)
             /\ \A k \in 1..Len(resultado.items) :
                   /\ v.rows[k].nombre = resultado.items[k].nombre
                   /\ v.rows[k].cantidad = resultado.items[k].cantidad
                   /\ ParseCents(v.rows[k].precioUnitario)
                        = resultado.items[k].precioUnitario
                   /\ ParseCents(v.rows[k].subtotal)
                        = resultado.items[k].subtotal
             /\ ParseCents(v.subtotal) = resultado.subtotal
             /\ ParseCents(v.iva) = resultado.iva
             /\ ParseCents(v.total) = resultado.total
    /\ \A q \in Cotizaciones :
          Amounts(QuoteView([q EXCEPT !.debug = <<>>]))
            = Amounts(QuoteView([q EXCEPT !.debug =
                         << [textoInterpretado |-> "1 mesa",
                             formatoProcesado |-> "text"] >>]))

\* C18 witness: a result whose total is not its subtotal plus its tax, and
\* whose second row's subtotal is not quantity times unit price, is shown as
\* received
C18_Witness ==
    /\ ResultShown
    /\ resultado.total = 9999 /\ resultado.subtotal + resultado.iva = 3570
    /\ QuoteView(resultado).total = <<"9", "9", ".", "9", "9">>
    /\ QuoteView(resultado).rows[2].subtotal = <<"1", "5", ".", "0", "0">>

\* C19: the step in which a PDF export fails, at any of its steps, runs the
\* catch (the error becomes the PDF message, nothing is saved), leaves
\* resultado as it was, so what was on screen stays, and leaves generatingPDF
\* false.
C19_PdfFailureCaught ==
    [][ \A i \in 1..MaxPdfJobs, o \in PdfOutcomes \ {"ok"} :
          pdfSettled(i, o)
          => (/\ error' = PdfMessage
              /\ descargas' = descargas
              /\ resultado' = resultado
              /\ (ResultShown => ResultShown' /\ QuoteView(resultado')
                                                   = QuoteView(resultado))
              /\ ~generatingPDF') ]_vars

\* C19 witness: an export of the second quotation has failed; the quotation is
\* still shown and nothing was saved
C19_Witness ==
    /\ error = PdfMessage /\ ~generatingPDF /\ descargas = {}
    /\ ResultShown /\ resultado.total = 9999

\* C20: whenever the PDF message is the error held (an export has failed and
\* the error has not been cleared since), the banner shows it, or one step of
\* the page leads to a state where it is still the error held and the banner
\* shows it.
C20_PdfFailureShown ==
    error = PdfMessage
    => \/ ErrorShown
       \/ ENABLED (NextFail /\ error' = PdfMessage /\ ErrorShown')

\* the value of a character of the base64 alphabet
B64Value(c) == CHOOSE n \in 0..63 : Base64Alphabet[n + 1] = c

\* the bytes a base64 text decodes to (groups of four characters, "=" pads)
RECURSIVE Base64Decode(_)
Base64Decode(s) ==
    IF Len(s) < 4 THEN <<>>
    ELSE LET a == B64Value(s[1])
             b == B64Value(s[2])
             first == IF s[3] = "="
                      THEN << a * 4 + b \div 16 >>
                      ELSE IF s[4] = "="
                      THEN << a * 4 + b \div 16,
                              (b % 16) * 16 + B64Value(s[3]) \div 4 >>
                      ELSE << a * 4 + b \div 16,
                              (b % 16) * 16 + B64Value(s[3]) \div 4,
                              (B64Value(s[3]) % 4) * 64 + B64Value(s[4]) >>
         IN first \o Base64Decode(SubSeq(s, 5, Len(s)))

\* C21: when the read of a selected file completes, the payload stored is a
\* base64 text (not undefined) that decodes to the bytes of the file.
C21_RoundTrip ==
    [][ \A k \in 1..MaxReaders, b \in BOOLEAN :
          (readerOnload(k, b) /\ readers[k].kind = "file")
          => (/\ archivoBase64' # Undefined
              /\ Len(Base64Decode(archivoBase64')) = Len(readers[k].bytes)
              /\ Base64Decode(archivoBase64') = readers[k].bytes) ]_vars

\* a step of the quote flow, as SpecPage takes them
QuoteFlowStep ==
    \/ \E v \in Texts : setTextoRequerimiento(v)
    \/ \E f \in InputFormats : tabClick(f)
    \/ \E file \in Files : handleFileChange(file)
    \/ \E i \in 1..MaxReaders, b \in BOOLEAN : readerOnload(i, b)
    \/ clearFile
    \/ handleSubmit
    \/ \E i \in 1..MaxInflight, o \in Outcomes : cotizarSettled(i, o)
    \/ resetForm
    \/ startRecording
    \/ \E i \in 1..MaxSessions : getUserMediaResolved(i)
    \/ \E i \in 1..MaxSessions : getUserMediaRejected(i)
    \/ stopRecording
    \/ \E i \in 1..MaxSessions, d \in ChunkData : recorderStopped(i, d)
    \/ handleDownloadPDF
    \/ \E i \in 1..MaxPdfJobs, o \in PdfOutcomes : pdfSettled(i, o)

\* a step of the catalog viewer
CatalogStep ==
    \/ \E o \in CatalogoOutcomes : catalogoSettled(o)
    \/ \E cat \in FilterValues : setCategoriaActiva(cat)

\* C22: no step of the quote flow changes the catalog, the active filter or
\* the catalog's loading flag, and no step of the catalog viewer changes the
\* modality, the text, the payload, loading, the result or the error.
C22_Independent ==
    [][ /\ QuoteFlowStep
           => UNCHANGED <<catalogo, categoriaActiva, loadingCatalogo>>
        /\ CatalogStep
           => UNCHANGED <<formato, textoRequerimiento, archivoBase64, loading,
                          resultado, error>> ]_vars

\* a quotation arrived and was exported while the catalog stayed loaded and
\* filtered by "sillas"
C22_Witness ==
    /\ catalogo # Null
    /\ ~RenderThrows
    /\ categoriaActiva = "sillas"
    /\ loadingCatalogo = FALSE
    /\ resultado # Null
    /\ descargas # {}

\* the calls of startRecording whose recorder is in state st
InState(st) == { i \in 1..MaxSessions : recorders[i].state = st }

\* C23: at most one recorder is recording and at most one microphone stream
\* is open at any time; a click on the microphone button starts a call only
\* when the controller is idle and no other call is waiting for the
\* microphone; and a call that got the microphone begins its session only
\* when the controller is idle.
C23_OneSession ==
    /\ [](Cardinality(InState("recording")) <= 1)
    /\ [](Cardinality({ i \in 1..MaxSessions : recorders[i].stream = "open" }) <= 1)
    /\ [][ startRecording => (~isRecording /\ InState("asking") = {}) ]_vars
    /\ [][ \A i \in 1..MaxSessions :
             getUserMediaResolved(i) => ~isRecording ]_vars

\* C24: a call that got the microphone begins with an empty chunk array and
\* the counter at 0; the chunk array never holds a chunk of size 0; and when
\* the stop callback of recorder i builds the payload's blob, every chunk in
\* the array was delivered by recorder i.
C24_FreshSession ==
    /\ [][ \A i \in 1..MaxSessions :
             getUserMediaResolved(i)
             => (audioChunksRef' = <<>> /\ recordingTime' = 0) ]_vars
    /\ [](\A k \in 1..Len(audioChunksRef) : audioChunksRef[k].data # <<>>)
    /\ [][ \A i \in 1..MaxSessions, d \in ChunkData :
             recorderStopped(i, d)
             => \A k \in 1..Len(audioChunksRef') :
                  audioChunksRef'[k].session = i ]_vars

\* a catalog has been fetched and is displayed
CatalogoLoaded == catalogo # Null /\ ~RenderThrows

\* C25 as stated: once a catalog is fetched, the filters offered besides
\* Todas are the distinct categoria values of its products.
C25_DerivedCategories ==
    CatalogoLoaded
    => \A cat \in FilterValues \ {"todas"} :
         (ENABLED setCategoriaActiva(cat))
         <=> \E k \in 1..Len(catalogo.productos) :
               catalogo.productos[k].categoria = cat

\* C25 amended: once a catalog is fetched, the filters offered are Todas and
\* the entries of the categorias list of the response, whether or not a
\* fetched product has that category.
C25_ListedCategories ==
    CatalogoLoaded
    => \A cat \in FilterValues :
         (ENABLED setCategoriaActiva(cat))
         <=> (\/ cat = "todas"
              \/ \E k \in 1..Len(catalogo.categorias) :
                   catalogo.categorias[k] = cat)

\* C25 witness: the filter "sofas", listed by the response, was chosen and no
\* fetched product is of that category
C25_Witness ==
    /\ CatalogoLoaded
    /\ categoriaActiva = "sofas"
    /\ \A k \in 1..Len(catalogo.productos) :
          catalogo.productos[k].categoria # "sofas"
    /\ NoProductsShown

\* C26: in src/pages/index.tsx a click on submit with a blank name sets the
\* name-required message and issues no POST, whether or not the requirement
\* is valid.
C26_NameRequired ==
    [][ (handleSubmitIndex /\ IsBlank(nombre))
        => (/\ error' = "El nombre es requerido"
            /\ cotizar' = cotizar
            /\ loading' = loading
            /\ resultado' = resultado) ]_vars

\* C26 witness: the name is a space and the text is blank too; the message
\* shown is that of the name
C26_Witness ==
    /\ revision = "index"
    /\ nombre = <<" ">>
    /\ formato = "text" /\ Trim(textoRequerimiento) = <<>>
    /\ error = "El nombre es requerido"
    /\ cotizar = <<>>

\* a contact field as sent: the entry or the placeholder, and not blank
SentAsEntered(sent, entry) ==
    /\ sent = entry \/ sent = <<"No indicado">>
    /\ ~IsBlank(sent)

\* C27: in src/unnamed/part_000 a click on submit with a valid requirement
\* issues the POST whatever the name, email and city hold; each of the three
\* is sent as the user's entry or as "No indicado", and none is sent empty or
\* made of white space only.
C27_ContactFields ==
    [][ handleSubmit
        => (/\ (ValidationMessage(formato, textoRequerimiento, archivoBase64) = ""
                  => IssuesOne)
            /\ IssuesOne
                 => (/\ SentAsEntered(Issued.body.nombre, nombre)
                     /\ SentAsEntered(Issued.body.email, email)
                     /\ SentAsEntered(Issued.body.ciudad, ciudad))) ]_vars

\* the held payload was read from a file or recording called name
ReadFrom(name) ==
    \/ \E f \in Files : f.name = name /\ archivoBase64 = Base64Encode(f.bytes)
    \/ /\ name = "Grabacion.webm"
       /\ \A f \in Files : archivoBase64 # Base64Encode(f.bytes)

\* C28: in every state a payload is held exactly when a file name is held,
\* and the name held is that of the file or recording the payload was read
\* from.
C28_NameDescribesPayload ==
    /\ Truthy(archivoBase64) <=> nombreArchivo # ""
    /\ Truthy(archivoBase64) => ReadFrom(nombreArchivo)

\* a click on submit that passes the validation and issues the POST
ValidatedSubmit == handleSubmit /\ IssuesOne

\* C29 as stated: a validated submission leaves error empty and resultado
\* null, and in every state with loading true resultado is null and error is
\* empty.
C29_CleanWhileLoading ==
    /\ [][ ValidatedSubmit => (error' = "" /\ resultado' = Null) ]_vars
    /\ [](loading => (resultado = Null /\ error = ""))

\* C29 amended: a validated submission leaves error empty, resultado null and
\* loading true; in every state with loading true resultado is null; and a
\* step taken while loading is and stays true changes error only if it is a
\* failed start of a recording or a failed PDF export, which set their own
\* message.
C29_CleanUnlessReported ==
    /\ [][ ValidatedSubmit
           => (error' = "" /\ resultado' = Null /\ loading') ]_vars
    /\ [](loading => resultado = Null)
    /\ [][ (loading /\ loading' /\ error' # error)
           => \/ /\ \E i \in 1..MaxSessions : getUserMediaRejected(i)
                 /\ error' = MicrophoneMessage
              \/ /\ \E i \in 1..MaxPdfJobs, o \in PdfOutcomes : pdfSettled(i, o)
                 /\ error' = PdfMessage ]_vars

\* C29 witness: a request is in flight, a read of a file completed and the
\* tab is another one since the submission, and the error is still empty
C29_Witness ==
    /\ loading /\ Len(cotizar) = 1
    /\ cotizar[1].body.formato = "text"
    /\ formato = "audio"
    /\ Truthy(archivoBase64)
    /\ resultado = Null /\ error = ""

\* C30: a click on Nueva cotizacion sets the modality to text and empties the
\* text, the payload, the file name, the result and the error, and leaves the
\* name, email and city, the catalog, its filter and its loading flag,
\* loading, the recording state and its counter, and everything else of the
\* page as they were.
C30_ResetFrame ==
    [][ resetForm
        => (/\ formato' = "text"
            /\ textoRequerimiento' = <<>>
            /\ archivoBase64' = <<>>
            /\ nombreArchivo' = ""
            /\ resultado' = Null
            /\ error' = ""
            /\ UNCHANGED <<nombre, email, ciudad>>
            /\ UNCHANGED <<catalogo, categoriaActiva, loadingCatalogo>>
            /\ UNCHANGED <<loading, isRecording, recordingTime>>
            /\ UNCHANGED <<generatingPDF, pdfJobs, descargas, cotizar, readers,
                           recorders, timers, mediaRecorderRef, audioChunksRef,
                           recordingIntervalRef>>) ]_vars

\* C30 witness: a quotation was exported and the form is back, with the
\* contact fields filled, the catalog filtered and a recording still running
C30_Witness ==
    /\ FormShown
    /\ descargas # {}
    /\ formato = "text" /\ textoRequerimiento = <<>> /\ error = ""
    /\ nombre = <<"A">> /\ email = <<"A">> /\ ciudad = <<" ">>
    /\ catalogo # Null /\ categoriaActiva = "sillas"
    /\ isRecording /\ recordingTime = 1

====
